---- MODULE Spec2Model ----
(***************************************************************************)
(* A model of the peer-to-peer node of src/main.go: a deployment of        *)
(* NumNodes node processes.  Every process runs the goroutines of          *)
(* Node.Start: the accept loop, one handleConnection per accepted          *)
(* connection, sendHeartbeats when the node is master, and the CLI on      *)
(* the main goroutine.  One step of the model is one operation on shared   *)
(* state: the registry mutex, the two maps, a TCP stream.                  *)
(***************************************************************************)
EXTENDS Integers, Sequences, FiniteSets, TLC

\* ------------------------------------------------------------- bounds
NumNodes == 2
MaxConns == 2
MaxQueue == 1
MaxSeen == 2
MaxCmds == 2
MaxEnv == 1

\* ---------------------------------------------------------- constants
Node == 1 .. NumNodes
ConnId == 1 .. MaxConns
\* A TCP client that is not one of the nodes (anything may dial a listener): an
\* id past the nodes'.
Ext == NumNodes + 1
\* The nil net.Conn that a failed map lookup returns.
NoConn == 0
\* The port a node listens on (the scenario's 9001, 9002, ...).
Port(n) == 9000 + n
\* An address nothing listens on.
DeadAddr == Port(0)
Addr == {Port(n) : n \in Node} \cup {DeadAddr}
\* The address of a foreign TCP server.
ExtAddr == Port(Ext)
Content == {"hello"}
MsgType == {"heartbeat", "task", "result"}

\* type Message struct
Message(t, c, f) == [Type |-> t, Content |-> c, From |-> f]
ZeroMessage == Message("", "", 0)

\* json.NewEncoder(conn).Encode(msg): one JSON object on the wire, the fields
\* under their json tags.
Encode(msg) == <<"{}", msg.Type, msg.Content, msg.From>>
\* Bytes that are no JSON object of the Message shape.
Garbage == <<"junk", "", "", 0>>
\* decoder.Decode(&msg): the error, and the message the object's fields give.
Decode(item) ==
    IF item[1] = "{}"
    THEN [err |-> FALSE, msg |-> Message(item[2], item[3], item[4])]
    ELSE [err |-> TRUE, msg |-> ZeroMessage]

\* fmt.Sprintf("Processed: %s", msg.Content)
Processed(c) == "Processed: " \o c

\* --------------------------------------------------------------- state
VARIABLES
    status,     \* per node: "new" (NewNode returned) or "running" (Start ran)
    IsMaster,   \* Node.IsMaster
    accept,     \* per node: the accept loop of Start, and the errors Accept returned
    Peers,      \* Node.Peers: id -> address
    conn,       \* Node.conn: id -> connection
    mutex,      \* Node.mutex: readerCount, writer pending, writer holding
    conns,      \* the TCP connections dialled so far, in dial order: the two ends,
                \* the address dialled, the id the dialler means to register it
                \* under, whether the transport is still there, and whether the
                \* listener's Accept had returned an error before the dial
    stream,     \* per connection: the objects written by the dialling side, unread
    back,       \* per connection: the objects written by the accepting side, unread
    cli,        \* per node: the CLI goroutine (startCLI and connectToPeer)
    hb,         \* per node: the sendHeartbeats goroutine
    handler,    \* per connection: the handleConnection goroutine
    call,       \* per goroutine: its sendMessage activation
    cmds,       \* the number of commands the users will still type at the CLIs
    envs        \* the number of steps the environment has taken so far

vars == <<status, IsMaster, back, accept, Peers, conn, mutex, conns, stream, cli, hb, handler, call, cmds, envs>>

\* The goroutines that call sendMessage.
Tasks == ({"cli", "hb"} \X Node) \cup ({"h"} \X ConnId)
CliTask(n) == <<"cli", n>>
HbTask(n) == <<"hb", n>>
HTask(c) == <<"h", c>>

\* The listener an address leads to.
Listener(a) ==
    IF \E n \in Node \cup {Ext} : Port(n) = a
    THEN CHOOSE n \in Node \cup {Ext} : Port(n) = a ELSE 0

\* The node a goroutine belongs to.
NodeOf(t) == IF t[1] = "h" THEN conns[t[2]].acceptor ELSE t[2]

IdleCall == [pc |-> "idle", targetID |-> 0, msg |-> ZeroMessage, conn |-> NoConn,
             exists |-> FALSE]
IdleCli == [pc |-> "prompt", id |-> 0, address |-> 0, conn |-> NoConn]
IdleHb(pc) == [pc |-> pc, todo |-> {}, sent |-> <<>>]
IdleHandler(pc) == [pc |-> pc, results |-> 0, msg |-> ZeroMessage]

\* func NewNode
NewNode ==
    /\ status = [n \in Node |-> "new"]
    /\ IsMaster = [n \in Node |-> n = 1]
    /\ Peers = [n \in Node |-> <<>>]
    /\ conn = [n \in Node |-> <<>>]
    /\ mutex = [n \in Node |-> [readerCount |-> 0, pending |-> FALSE, held |-> FALSE]]

\* The processes exist and nothing has run; the users will type k commands.
Boot(k) ==
    /\ NewNode
    /\ conns = <<>>
    /\ stream = [c \in ConnId |-> <<>>]
    /\ back = [c \in ConnId |-> <<>>]
    /\ cli = [n \in Node |-> IdleCli]
    /\ accept = [n \in Node |-> [pc |-> "off", errs |-> 0]]
    /\ hb = [n \in Node |-> IdleHb("off")]
    /\ handler = [c \in ConnId |-> IdleHandler("none")]
    /\ call = [t \in Tasks |-> IdleCall]
    /\ cmds = k
    /\ envs = 0

Init == Boot(MaxCmds)

\* ------------------------------------------------------ sync.RWMutex
\* A faulty lock: readers never wait.
CanRLockAlways(n) == TRUE

\* listener.Accept of node n has returned an error at some time.
Erred(n) == n \in Node /\ accept[n].errs > 0

\* RLock returns only while no writer holds the lock or waits for it.
CanRLock(n) == ~mutex[n].pending /\ ~mutex[n].held
RLock(n) ==
    /\ CanRLock(n)
    /\ mutex' = [mutex EXCEPT ![n].readerCount = @ + 1]
RUnlock(n) == mutex' = [mutex EXCEPT ![n].readerCount = @ - 1]
\* Lock announces the writer, which keeps later readers out, ...
LockAnnounce(n) == mutex' = [mutex EXCEPT ![n].pending = TRUE]
\* A faulty lock: the writer does not wait for the readers.
CanLockOverReaders(n) == ~mutex[n].held

\* ... and returns when the readers that were inside have left.
CanLock(n) == mutex[n].readerCount = 0 /\ ~mutex[n].held
LockAcquire(n) ==
    /\ CanLock(n)
    /\ mutex' = [mutex EXCEPT ![n].pending = FALSE, ![n].held = TRUE]
Unlock(n) == mutex' = [mutex EXCEPT ![n].held = FALSE]

\* A faulty map write: a key that is present keeps its value.
MapSetOnce(m, k, v) == [i \in DOMAIN m \cup {k} |-> IF i \in DOMAIN m THEN m[i] ELSE v]

\* m[k] = v on a Go map.
MapSet(m, k, v) == [i \in DOMAIN m \cup {k} |-> IF i = k THEN v ELSE m[i]]

\* ------------------------------------------------------- Node.Start
\* A faulty Start: every node launches sendHeartbeats.
SpawnsHeartbeatsAlways(n) == TRUE

\* Start launches sendHeartbeats only on a master (lines 63-66).
SpawnsHeartbeats(n) == IsMaster[n]

\* Start(port): the listener is bound, the accept loop and (on a master) the
\* heartbeat goroutine are launched, the CLI begins to read commands.
Start(n) ==
    /\ status[n] = "new"
    /\ status' = [status EXCEPT ![n] = "running"]
    /\ hb' = [hb EXCEPT ![n] = IdleHb(IF SpawnsHeartbeats(n) THEN "wait" ELSE "off")]
    /\ accept' = [accept EXCEPT ![n].pc = "Accept"]
    /\ UNCHANGED <<IsMaster, back, Peers, conn, mutex, conns, stream, cli, handler, call, cmds, envs>>

\* ----------------------------------------------------- sendMessage
\* A faulty caller: a handler whose sendMessage reported an error returns.
ResumeOrReturn(t, sentOn) ==
    /\ cli' = IF t[1] = "cli" THEN [cli EXCEPT ![t[2]].pc = "prompt"] ELSE cli
    /\ hb' = IF t[1] = "hb" THEN [hb EXCEPT ![t[2]].pc = "range"] ELSE hb
    /\ handler' = IF t[1] = "h"
                  THEN [handler EXCEPT ![t[2]].pc =
                           IF call[t].pc = "Encode" THEN "Decode" ELSE "dead"]
                  ELSE handler

\* What the caller does when sendMessage returns.
Resume(t, sentOn) ==
    /\ cli' = IF t[1] = "cli" THEN [cli EXCEPT ![t[2]].pc = "prompt"] ELSE cli
    /\ hb' = IF t[1] = "hb"
             THEN [hb EXCEPT ![t[2]].pc = "range",
                             ![t[2]].sent = IF sentOn = NoConn THEN @
                                            ELSE MapSet(@, call[t].targetID,
                                                   IF call[t].targetID \in DOMAIN @
                                                   THEN @[call[t].targetID] + 1 ELSE 1)]
             ELSE hb
    /\ handler' = IF t[1] = "h"
                  THEN [handler EXCEPT ![t[2]].pc = "Decode"]
                  ELSE handler

\* The call n.sendMessage(targetID, msg) by goroutine t.
BeginSend(t, targetID, msg) ==
    call' = [call EXCEPT ![t] = [IdleCall EXCEPT !.pc = "RLock", !.targetID = targetID,
                                                 !.msg = msg]]

\* n.mutex.RLock() (line 115)
SmRLock(t) ==
    /\ call[t].pc = "RLock"
    /\ RLock(NodeOf(t))
    /\ call' = [call EXCEPT ![t].pc = "lookup"]
    /\ UNCHANGED <<status, IsMaster, back, accept, Peers, conn, conns, stream, cli, hb, handler, cmds, envs>>

\* A faulty lookup: an absent id yields some connection of the map.
LookupAny(m, id) ==
    IF id \in DOMAIN m THEN [conn |-> m[id], exists |-> TRUE]
    ELSE IF DOMAIN m # {} THEN [conn |-> m[CHOOSE k \in DOMAIN m : TRUE], exists |-> TRUE]
    ELSE [conn |-> NoConn, exists |-> FALSE]

\* conn, exists := n.conn[targetID] (line 116)
Lookup(m, id) ==
    IF id \in DOMAIN m THEN [conn |-> m[id], exists |-> TRUE]
    ELSE [conn |-> NoConn, exists |-> FALSE]

\* Lines 116-119: the lookup, RUnlock, and the test of exists.
SmLookup(t) ==
    /\ call[t].pc = "lookup"
    /\ RUnlock(NodeOf(t))
    /\ LET r == Lookup(conn[NodeOf(t)], call[t].targetID) IN
       IF r.exists
       THEN call' = [call EXCEPT ![t].pc = "Encode", ![t].conn = r.conn,
                                         ![t].exists = TRUE]
       ELSE call' = [call EXCEPT ![t].pc = "NoConn"]
    /\ UNCHANGED <<status, IsMaster, back, accept, Peers, conn, conns, stream, cli, hb, handler, cmds, envs>>

\* A write on a connection fails once the transport is gone.
Writable(c) == conns[c].open

\* Lines 124-125: the message is encoded onto the connection and sendMessage
\* returns, or the write fails.
SmEncode(t) ==
    /\ call[t].pc = "Encode"
    /\ LET c == call[t].conn IN
       IF Writable(c)
       THEN /\ Len(stream[c]) < MaxQueue
            /\ stream' = [stream EXCEPT ![c] = Append(@, Encode(call[t].msg))]
            /\ call' = [call EXCEPT ![t] = IdleCall]
            /\ Resume(t, c)
       ELSE /\ call' = [call EXCEPT ![t].pc = "EncodeErr"]
            /\ UNCHANGED <<stream, cli, hb, handler>>
    /\ UNCHANGED <<status, IsMaster, back, accept, Peers, conn, mutex, conns, cmds, envs>>

\* A faulty sendMessage: after a failed write it drops the entry of the peer.
SmLogRemoves(t) ==
    /\ call[t].pc \in {"NoConn", "EncodeErr"}
    /\ call' = [call EXCEPT ![t] = IdleCall]
    /\ Resume(t, call[t].conn)
    /\ conn' = IF call[t].pc = "EncodeErr"
               THEN [conn EXCEPT ![NodeOf(t)] =
                        [i \in DOMAIN @ \ {call[t].targetID} |-> @[i]]]
               ELSE conn
    /\ UNCHANGED <<status, IsMaster, back, accept, Peers, mutex, conns, stream, cmds, envs>>

\* log.Printf of "No connection to node" (lines 120-121) or of "Failed to send
\* message" (line 126), and sendMessage returns.
SmLog(t) ==
    /\ call[t].pc \in {"NoConn", "EncodeErr"}
    /\ call' = [call EXCEPT ![t] = IdleCall]
    /\ Resume(t, call[t].conn)
    /\ UNCHANGED <<status, IsMaster, back, accept, Peers, conn, mutex, conns, stream, cmds, envs>>

\* --------------------------------------------------------- startCLI
\* reader.ReadString returns a command (line 148): the user has typed one.
AtPrompt(n) == status[n] = "running" /\ cli[n].pc = "prompt" /\ cmds > 0
ReadCommand == cmds' = cmds - 1

\* net.Dial succeeds when a started node, or a foreign server, listens on the
\* address.
DialOk(address) ==
    \/ address = ExtAddr
    \/ Listener(address) \in Node /\ status[Listener(address)] = "running"

\* "connect <node_id> <address>" (lines 153-159) and net.Dial (line 101)
\* succeeds: a new connection to the listener.
CliConnect(n, id, address) ==
    /\ AtPrompt(n)
    /\ ReadCommand
    /\ DialOk(address)
    /\ Len(conns) < MaxConns
    /\ conns' = Append(conns, [dialer |-> n, acceptor |-> Listener(address),
                               addr |-> address, id |-> id, open |-> TRUE,
                               late |-> Erred(Listener(address))])
    /\ cli' = [cli EXCEPT ![n] = [pc |-> "Lock", id |-> id, address |-> address,
                                  conn |-> Len(conns) + 1]]
    /\ UNCHANGED <<status, IsMaster, back, accept, Peers, conn, mutex, stream, hb, handler, call, envs>>

\* A faulty connect: the address is recorded although net.Dial failed.
CliConnectFailRegisters(n, id, address) ==
    /\ AtPrompt(n)
    /\ ReadCommand
    /\ ~DialOk(address)
    /\ Peers' = [Peers EXCEPT ![n] = MapSet(@, id, address)]
    /\ cli' = [cli EXCEPT ![n].pc = "err"]
    /\ UNCHANGED <<status, IsMaster, back, accept, conn, mutex, conns, stream, hb, handler, call, envs>>

\* "connect <node_id> <address>" and net.Dial fails: connectToPeer returns the
\* error (lines 102-104).
CliConnectFail(n, id, address) ==
    /\ AtPrompt(n)
    /\ ReadCommand
    /\ ~DialOk(address)
    /\ cli' = [cli EXCEPT ![n].pc = "err"]
    /\ UNCHANGED <<status, IsMaster, back, accept, Peers, conn, mutex, conns, stream, hb, handler, call, envs>>

\* The CLI prints the error (lines 160-161) and prompts again.
CliReport(n) ==
    /\ cli[n].pc = "err"
    /\ cli' = [cli EXCEPT ![n].pc = "prompt"]
    /\ UNCHANGED <<status, IsMaster, back, accept, Peers, conn, mutex, conns, stream, hb, handler, call, cmds, envs>>

\* n.mutex.Lock() (line 106), the writer announces itself ...
ConnectLock(n) ==
    /\ cli[n].pc = "Lock"
    /\ LockAnnounce(n)
    /\ cli' = [cli EXCEPT ![n].pc = "LockWait"]
    /\ UNCHANGED <<status, IsMaster, back, accept, Peers, conn, conns, stream, hb, handler, call, cmds, envs>>

\* ... and Lock returns.
ConnectLocked(n) ==
    /\ cli[n].pc = "LockWait"
    /\ LockAcquire(n)
    /\ cli' = [cli EXCEPT ![n].pc = "setPeers"]
    /\ UNCHANGED <<status, IsMaster, back, accept, Peers, conn, conns, stream, hb, handler, call, cmds, envs>>

\* n.Peers[id] = address (line 107)
ConnectSetPeers(n) ==
    /\ cli[n].pc = "setPeers"
    /\ Peers' = [Peers EXCEPT ![n] = MapSet(@, cli[n].id, cli[n].address)]
    /\ cli' = [cli EXCEPT ![n].pc = "setConn"]
    /\ UNCHANGED <<status, IsMaster, back, accept, conn, mutex, conns, stream, hb, handler, call, cmds, envs>>

\* A faulty connectToPeer: it also reads what the remote has written on the
\* new connection.
ConnectSetConnReads(n) ==
    /\ cli[n].pc = "setConn"
    /\ conn' = [conn EXCEPT ![n] = MapSet(@, cli[n].id, cli[n].conn)]
    /\ Unlock(n)
    /\ cli' = [cli EXCEPT ![n] = IdleCli]
    /\ back' = [back EXCEPT ![cli[n].conn] = <<>>]
    /\ UNCHANGED <<status, IsMaster, accept, Peers, conns, stream, hb, handler, call, cmds, envs>>

\* n.conn[id] = conn; n.mutex.Unlock(); return nil (lines 108-111); the CLI
\* prints "Connected".
ConnectSetConn(n) ==
    /\ cli[n].pc = "setConn"
    /\ conn' = [conn EXCEPT ![n] = MapSet(@, cli[n].id, cli[n].conn)]
    /\ Unlock(n)
    /\ cli' = [cli EXCEPT ![n] = IdleCli]
    /\ UNCHANGED <<status, IsMaster, back, accept, Peers, conns, stream, hb, handler, call, cmds, envs>>

\* "send <node_id> <message>" (lines 166-177)
CliSend(n, targetID, content) ==
    /\ AtPrompt(n)
    /\ ReadCommand
    /\ cli' = [cli EXCEPT ![n].pc = "send"]
    /\ BeginSend(CliTask(n), targetID, Message("task", content, n))
    /\ UNCHANGED <<status, IsMaster, back, accept, Peers, conn, mutex, conns, stream, hb, handler, envs>>

\* "list" (lines 179-181): n.mutex.RLock()
CliList(n) ==
    /\ AtPrompt(n)
    /\ ReadCommand
    /\ RLock(n)
    /\ cli' = [cli EXCEPT ![n].pc = "list"]
    /\ UNCHANGED <<status, IsMaster, back, accept, Peers, conn, conns, stream, hb, handler, call, envs>>

\* Lines 182-185: every (id, address) is printed, then n.mutex.RUnlock().
CliListDone(n) ==
    /\ cli[n].pc = "list"
    /\ RUnlock(n)
    /\ cli' = [cli EXCEPT ![n].pc = "prompt"]
    /\ UNCHANGED <<status, IsMaster, back, accept, Peers, conn, conns, stream, hb, handler, call, cmds, envs>>

\* --------------------------------------------------- sendHeartbeats
\* A tick arrives and n.mutex.RLock() returns (lines 132-133); the range over
\* n.Peers will visit every id that is in the map now.
HbTick(n) ==
    /\ hb[n].pc = "wait"
    /\ RLock(n)
    /\ hb' = [hb EXCEPT ![n] = [pc |-> "range", todo |-> DOMAIN Peers[n], sent |-> <<>>]]
    /\ UNCHANGED <<status, IsMaster, back, accept, Peers, conn, conns, stream, cli, handler, call, cmds, envs>>

\* One iteration of the range (lines 134-139): sendMessage(id, heartbeat).
HbNext(n) ==
    /\ hb[n].pc = "range"
    /\ \E id \in hb[n].todo :
          /\ hb' = [hb EXCEPT ![n].pc = "send", ![n].todo = @ \ {id}]
          /\ BeginSend(HbTask(n), id, Message("heartbeat", "", n))
    /\ UNCHANGED <<status, IsMaster, back, accept, Peers, conn, mutex, conns, stream, cli, handler, cmds, envs>>

\* The range is over: n.mutex.RUnlock() (line 140), and the next tick is awaited.
HbDone(n) ==
    /\ hb[n].pc = "range"
    /\ hb[n].todo = {}
    /\ RUnlock(n)
    /\ hb' = [hb EXCEPT ![n] = IdleHb("wait")]
    /\ UNCHANGED <<status, IsMaster, back, accept, Peers, conn, conns, stream, cli, handler, call, cmds, envs>>

\* ------------------------------------------------- the accept loop
\* listener.Accept() returns the oldest connection waiting on the listener and
\* go n.handleConnection(conn) starts its handler (lines 53-59).
Accept(c) ==
    /\ c \in DOMAIN conns
    /\ handler[c].pc = "none"
    /\ conns[c].acceptor \in Node
    /\ accept[conns[c].acceptor].pc = "Accept"
    /\ \A d \in 1 .. (c - 1) : conns[d].acceptor = conns[c].acceptor => handler[d].pc # "none"
    /\ handler' = [handler EXCEPT ![c] = IdleHandler("Decode")]
    /\ UNCHANGED <<status, IsMaster, back, accept, Peers, conn, mutex, conns, stream, cli, hb, call, cmds, envs>>

\* The environment takes one more step.
EnvAct == envs < MaxEnv /\ envs' = envs + 1

\* listener.Accept() returns an error (lines 53-54).
AcceptError(n) ==
    /\ EnvAct
    /\ accept[n].pc = "Accept"
    /\ accept' = [accept EXCEPT ![n] = [pc |-> "log", errs |-> @.errs + 1]]
    /\ UNCHANGED <<status, IsMaster, back, Peers, conn, mutex, conns, stream, cli, hb, handler, call, cmds>>

\* A faulty accept loop: the error ends it.
AcceptLogFatal(n) ==
    /\ accept[n].pc = "log"
    /\ accept' = [accept EXCEPT ![n].pc = "off"]
    /\ UNCHANGED <<status, IsMaster, back, Peers, conn, mutex, conns, stream, cli, hb, handler, call, cmds, envs>>

\* log.Printf("Failed to accept connection") and continue (lines 55-56).
AcceptLog(n) ==
    /\ accept[n].pc = "log"
    /\ accept' = [accept EXCEPT ![n].pc = "Accept"]
    /\ UNCHANGED <<status, IsMaster, back, Peers, conn, mutex, conns, stream, cli, hb, handler, call, cmds, envs>>

\* ------------------------------------------------ handleConnection
\* The saturating count of the results a handler has printed.
Count(k) == IF k < MaxSeen THEN k + 1 ELSE MaxSeen

\* A faulty reply: the task's content is sent back as it came.
ResultEcho(n, msg) == Message("result", msg.Content, n)

\* The reply to a task (lines 89-93).
Result(n, msg) == Message("result", Processed(msg.Content), n)

\* A faulty reply: it is addressed to the node at the other end of connection c.
ReplyToDialer(c, msg) == conns[c].dialer

\* The id the reply to a task read on connection c is sent to: msg.From (line 89).
ReplyTo(c, msg) == msg.From

\* A faulty switch: a result is answered like a task.
DispatchAnswersAll(h, msg) ==
    CASE msg.Type \in {"task", "result"} -> [h EXCEPT !.pc = "Sleep", !.msg = msg]
      [] OTHER -> h

\* The switch on msg.Type (lines 80-96): a task is printed and the handler
\* sleeps before it answers; a result is printed; nothing else changes the
\* handler.
Dispatch(h, msg) ==
    CASE msg.Type = "task" -> [h EXCEPT !.pc = "Sleep", !.msg = msg]
      [] msg.Type = "result" -> [h EXCEPT !.results = Count(@)]
      [] OTHER -> h

\* A faulty handler: it takes the read lock when it decodes, and so sleeps
\* holding it.
HandlerDecodeLocked(c) ==
    /\ handler[c].pc = "Decode"
    /\ stream[c] # <<>>
    /\ ~Decode(Head(stream[c])).err
    /\ stream' = [stream EXCEPT ![c] = Tail(@)]
    /\ handler' = [handler EXCEPT ![c] = Dispatch(@, Decode(Head(stream[c])).msg)]
    /\ IF Decode(Head(stream[c])).msg.Type = "task"
       THEN RLock(conns[c].acceptor)
       ELSE mutex' = mutex
    /\ UNCHANGED <<status, IsMaster, back, accept, Peers, conn, conns, cli, hb, call, cmds, envs>>

\* A faulty handler: it takes the message written last.
HandlerDecodeLast(c) ==
    /\ handler[c].pc = "Decode"
    /\ stream[c] # <<>>
    /\ ~Decode(stream[c][Len(stream[c])]).err
    /\ stream' = [stream EXCEPT ![c] = SubSeq(@, 1, Len(@) - 1)]
    /\ handler' = [handler EXCEPT ![c] = Dispatch(@, Decode(stream[c][Len(stream[c])]).msg)]
    /\ UNCHANGED <<status, IsMaster, back, accept, Peers, conn, mutex, conns, cli, hb, call, cmds, envs>>

\* decoder.Decode(&msg) returns a message (line 76), which is dispatched.
HandlerDecode(c) ==
    /\ handler[c].pc = "Decode"
    /\ stream[c] # <<>>
    /\ ~Decode(Head(stream[c])).err
    /\ stream' = [stream EXCEPT ![c] = Tail(@)]
    /\ handler' = [handler EXCEPT ![c] = Dispatch(@, Decode(Head(stream[c])).msg)]
    /\ UNCHANGED <<status, IsMaster, back, accept, Peers, conn, mutex, conns, cli, hb, call, cmds, envs>>

\* time.Sleep(time.Second) is over (line 88) and the handler calls
\* n.sendMessage(msg.From, result) (lines 89-93).
HandlerWake(c) ==
    /\ handler[c].pc = "Sleep"
    /\ handler' = [handler EXCEPT ![c].pc = "send", ![c].msg = ZeroMessage]
    /\ BeginSend(HTask(c), ReplyTo(c, handler[c].msg),
                 Result(conns[c].acceptor, handler[c].msg))
    /\ UNCHANGED <<status, IsMaster, back, accept, Peers, conn, mutex, conns, stream, cli, hb, cmds, envs>>

\* A faulty handler: the decode error ends every handler of the node.
HandlerDecodeErrorExit(c) ==
    /\ handler[c].pc = "Decode"
    /\ \/ stream[c] # <<>> /\ Decode(Head(stream[c])).err
       \/ stream[c] = <<>> /\ ~conns[c].open
    /\ handler' = [d \in ConnId |->
                      IF d \in DOMAIN conns /\ conns[d].acceptor = conns[c].acceptor
                         /\ handler[d].pc # "none"
                      THEN [handler[d] EXCEPT !.pc = "dead"] ELSE handler[d]]
    /\ UNCHANGED <<status, IsMaster, back, accept, Peers, conn, mutex, conns, stream, cli, hb, call, cmds, envs>>

\* decoder.Decode(&msg) returns an error (lines 76-78): what was read is no
\* message, or the stream has ended; the handler returns.
HandlerDecodeError(c) ==
    /\ handler[c].pc = "Decode"
    /\ \/ stream[c] # <<>> /\ Decode(Head(stream[c])).err
       \/ stream[c] = <<>> /\ ~conns[c].open
    /\ handler' = [handler EXCEPT ![c].pc = "dead"]
    /\ UNCHANGED <<status, IsMaster, back, accept, Peers, conn, mutex, conns, stream, cli, hb, call, cmds, envs>>

\* ------------------------------------------------- the environment
\* What a foreign client may write: any message, of a known type or not, under
\* any sender id, and bytes that are no message.
ExtItems ==
    {Garbage} \cup
    {Encode(Message(t, c, f)) : t \in {"task", "status"}, c \in Content, f \in Node}

\* What a foreign client may send in one go: up to MaxQueue objects.
ExtBursts == UNION {[1 .. k -> ExtItems] : k \in 1 .. MaxQueue}

\* A foreign client dials a node's listener and writes on its connection.
ExtSend(address, burst) ==
    /\ EnvAct
    /\ DialOk(address)
    /\ Len(conns) < MaxConns
    /\ conns' = Append(conns, [dialer |-> Ext, acceptor |-> Listener(address),
                               addr |-> address, id |-> 0, open |-> TRUE,
                               late |-> Erred(Listener(address))])
    /\ stream' = [stream EXCEPT ![Len(conns) + 1] = burst]
    /\ UNCHANGED <<status, IsMaster, back, accept, Peers, conn, mutex, cli, hb, handler, call, cmds>>

\* What a foreign server may write on a connection made to it.
BackItems == {Encode(Message(t, c, Ext)) : t \in {"task", "result"}, c \in Content}

\* A foreign server writes on a connection that a node dialled.
ExtWrite(c, item) ==
    /\ EnvAct
    /\ c \in DOMAIN conns
    /\ conns[c].acceptor = Ext /\ conns[c].open
    /\ Len(back[c]) < MaxQueue
    /\ back' = [back EXCEPT ![c] = Append(@, item)]
    /\ UNCHANGED <<status, IsMaster, accept, Peers, conn, mutex, conns, stream, cli, hb, handler, call, cmds>>

\* A foreign server reads what a node wrote on a connection made to it.
ExtRead(c) ==
    /\ c \in DOMAIN conns
    /\ conns[c].acceptor = Ext
    /\ stream[c] # <<>>
    /\ stream' = [stream EXCEPT ![c] = Tail(@)]
    /\ UNCHANGED <<status, IsMaster, back, accept, Peers, conn, mutex, conns, cli, hb, handler, call, cmds, envs>>

\* The transport under a connection is dropped: the reader meets the end of
\* the stream after what was written, and writes fail from now on.
Drop(c) ==
    /\ EnvAct
    /\ c \in DOMAIN conns
    /\ conns[c].open
    /\ conns' = [conns EXCEPT ![c].open = FALSE]
    /\ UNCHANGED <<status, IsMaster, back, accept, Peers, conn, mutex, stream, cli, hb, handler, call, cmds>>

\* ------------------------------------------------------ the system
Command(n) ==
    \/ \E id \in Node, address \in Addr : CliConnect(n, id, address)
    \/ \E id \in Node, address \in Addr : CliConnectFail(n, id, address)
    \/ \E targetID \in Node, content \in Content : CliSend(n, targetID, content)
    \/ CliList(n)

\* A step of the CLI goroutine inside a command.
CliStep(n) ==
    \/ CliReport(n)
    \/ ConnectLock(n)
    \/ ConnectLocked(n)
    \/ ConnectSetPeers(n)
    \/ ConnectSetConn(n)
    \/ CliListDone(n)
    \/ \E t \in {CliTask(n)} : SmRLock(t) \/ SmLookup(t) \/ SmEncode(t) \/ SmLog(t)

\* A step of the heartbeat goroutine.
HbRun(n) ==
    \/ HbTick(n)
    \/ HbNext(n)
    \/ HbDone(n)
    \/ \E t \in {HbTask(n)} : SmRLock(t) \/ SmLookup(t) \/ SmEncode(t)

\* ... and one in which a sendMessage of the range reports an error.
HbStep(n) == HbRun(n) \/ \E t \in {HbTask(n)} : SmLog(t)

\* A step of the handler of a connection.
HandlerStep(c) ==
    \/ HandlerDecode(c)
    \/ HandlerWake(c)
    \/ HandlerDecodeError(c)
    \/ \E t \in {HTask(c)} : SmRLock(t) \/ SmLookup(t) \/ SmEncode(t) \/ SmLog(t)

EnvStep ==
    \/ \E address \in Addr, burst \in ExtBursts : ExtSend(address, burst)
    \/ \E c \in ConnId : Drop(c)
    \/ \E n \in Node : AcceptError(n)

Next ==
    \/ \E n \in Node : Start(n)
    \/ \E n \in Node : Command(n)
    \/ \E n \in Node : CliStep(n)
    \/ \E n \in Node : HbStep(n)
    \/ \E c \in ConnId : Accept(c)
    \/ \E n \in Node : AcceptLog(n)
    \/ \E c \in ConnId : HandlerStep(c)
    \/ EnvStep

Spec == Init /\ [][Next]_vars

\* ------------------------------------- the heartbeat, under fair scheduling
\* Nodes that start, connect to one another and are read by their peers'
\* handlers, with no task sent and no fault: what the heartbeat goroutine does
\* when every goroutine that can run does run.
NextHb ==
    \/ \E n \in Node : Start(n)
    \/ \E n \in Node, id \in Node, address \in Addr : CliConnect(n, id, address)
    \/ \E n \in Node : ConnectLock(n)
    \/ \E n \in Node : ConnectLocked(n)
    \/ \E n \in Node : ConnectSetPeers(n)
    \/ \E n \in Node : ConnectSetConn(n)
    \/ \E n \in Node : HbRun(n)
    \/ \E c \in ConnId : Accept(c)
    \/ \E c \in ConnId : HandlerDecode(c)

\* The Go scheduler runs every goroutine that is not blocked, and the ticker
\* fires; nothing makes a user type a command.
FairHb ==
    /\ \A n \in Node : WF_vars(Start(n))
    /\ \A n \in Node : WF_vars(ConnectLock(n) \/ ConnectLocked(n) \/ ConnectSetPeers(n)
                               \/ ConnectSetConn(n))
    /\ \A n \in Node : WF_vars(HbRun(n))
    /\ \A c \in ConnId : WF_vars(Accept(c))
    /\ \A c \in ConnId : WF_vars(HandlerDecode(c))

SpecHb == Init /\ [][NextHb]_vars /\ FairHb

\* What a foreign client writes when it sends two objects at once: tasks under
\* any sender id, and bytes that are no message.
ExtPairs ==
    LET items == {Garbage} \cup {Encode(Message("task", c, f)) : c \in Content, f \in Node}
    IN  [1 .. 2 -> items]

\* The system whose foreign clients write two objects in one go.
NextPairs ==
    \/ \E n \in Node : Start(n)
    \/ \E n \in Node : Command(n)
    \/ \E n \in Node : CliStep(n)
    \/ \E n \in Node : HbStep(n)
    \/ \E c \in ConnId : Accept(c)
    \/ \E c \in ConnId : HandlerStep(c)
    \/ \E address \in Addr, burst \in ExtPairs : ExtSend(address, burst)

SpecPairs == Init /\ [][NextPairs]_vars

\* The system in which the nodes may also connect to a foreign server, which
\* reads what they send and may write on the connection.
NextBack ==
    \/ \E n \in Node : Start(n)
    \/ \E n \in Node, id \in Node, address \in Addr \cup {ExtAddr} : CliConnect(n, id, address)
    \/ \E n \in Node, targetID \in Node, content \in Content : CliSend(n, targetID, content)
    \/ \E n \in Node : ConnectLock(n)
    \/ \E n \in Node : ConnectLocked(n)
    \/ \E n \in Node : ConnectSetPeers(n)
    \/ \E n \in Node : ConnectSetConn(n)
    \/ \E n \in Node : HbRun(n)
    \/ \E c \in ConnId : Accept(c)
    \/ \E c \in ConnId : HandlerDecode(c)
    \/ \E c \in ConnId : HandlerWake(c)
    \/ \E t \in Tasks : SmRLock(t)
    \/ \E t \in Tasks : SmLookup(t)
    \/ \E t \in Tasks : SmEncode(t)
    \/ \E t \in Tasks : SmLog(t)
    \/ \E c \in ConnId, item \in BackItems : ExtWrite(c, item)
    \/ \E c \in ConnId : ExtRead(c)

SpecBack == Init /\ [][NextBack]_vars

\* The accept loop of every node runs: an Accept that can return does, and the
\* loop goes on after logging an error.
FairAccept ==
    /\ \A c \in ConnId : WF_vars(Accept(c))
    /\ \A n \in Node : WF_vars(AcceptLog(n))

SpecAccept == Init /\ [][Next]_vars /\ FairAccept

\* --------------------------------------------- the two-node scenario
\* Node 1 is A, the master, and node 2 is B.  B connects to A under A's id, A
\* connects to B under B's id, B sends "hello" to A.
Scenario ==
    << [n |-> 2, cmd |-> "connect", id |-> 1, arg |-> Port(1)],
       [n |-> 1, cmd |-> "connect", id |-> 2, arg |-> Port(2)],
       [n |-> 2, cmd |-> "send", id |-> 1, arg |-> "hello"] >>

\* The user types the next command of the scenario once the command before it
\* is over.
ScenarioCommand ==
    /\ cmds > 0
    /\ \A n \in Node : cli[n].pc = "prompt"
    /\ LET s == Scenario[Len(Scenario) - cmds + 1] IN
       IF s.cmd = "connect" THEN CliConnect(s.n, s.id, s.arg)
       ELSE CliSend(s.n, s.id, s.arg)

NextScenario ==
    \/ \E n \in Node : Start(n)
    \/ ScenarioCommand
    \/ \E n \in Node : ConnectLock(n)
    \/ \E n \in Node : ConnectLocked(n)
    \/ \E n \in Node : ConnectSetPeers(n)
    \/ \E n \in Node : ConnectSetConn(n)
    \/ \E n \in Node : HbTick(n)
    \/ \E n \in Node : HbNext(n)
    \/ \E n \in Node : HbDone(n)
    \/ \E c \in ConnId : Accept(c)
    \/ \E c \in ConnId : HandlerDecode(c)
    \/ \E c \in ConnId : HandlerWake(c)
    \/ \E t \in Tasks : SmRLock(t)
    \/ \E t \in Tasks : SmLookup(t)
    \/ \E t \in Tasks : SmEncode(t)

\* Every goroutine that can run does run, the users type the scenario, and a
\* write that waits for room in a connection's buffer gets it once the reader
\* has drained the buffer, whoever else writes there.
FairScenario ==
    /\ \A n \in Node : WF_vars(Start(n))
    /\ WF_vars(ScenarioCommand)
    /\ \A n \in Node : WF_vars(ConnectLock(n) \/ ConnectLocked(n) \/ ConnectSetPeers(n)
                               \/ ConnectSetConn(n))
    /\ \A n \in Node : WF_vars(HbTick(n) \/ HbNext(n) \/ HbDone(n))
    /\ \A c \in ConnId : WF_vars(Accept(c))
    /\ \A c \in ConnId : WF_vars(HandlerDecode(c) \/ HandlerWake(c))
    /\ \A t \in Tasks : WF_vars(SmRLock(t) \/ SmLookup(t))
    /\ \A t \in Tasks : SF_vars(SmEncode(t))

SpecScenario == Boot(Len(Scenario)) /\ [][NextScenario]_vars /\ FairScenario

\* ================================================================ claims
\* The connections of node p to the listener of node q.
Links(p, q) == {d \in DOMAIN conns : conns[d].dialer = p /\ conns[d].acceptor = q}

\* What is written on connection d in a step: the objects appended to its stream.
Written(d) == stream'[d] # stream[d] /\ Len(stream'[d]) = Len(stream[d]) + 1
                /\ SubSeq(stream'[d], 1, Len(stream[d])) = stream[d]
WrittenItem(d) == stream'[d][Len(stream'[d])]

\* C1: when node S has written a task (from = S's id) onto a connection that
\* node P reads with a handler, P emits exactly one result back to S, with
\* content "Processed: " + c and from = P's id.  Stated on the step that ends
\* the dispatch of such a task by P's handler: the result has gone onto a
\* connection from P to S.
C1_TaskIsAnswered ==
    [][\A c \in DOMAIN conns :
          LET S == conns[c].dialer
              P == conns[c].acceptor
              reply == call[HTask(c)].msg
          IN  (/\ S \in Node
               /\ S # P
               /\ conns[c].id = P
               /\ handler[c].pc = "send"
               /\ call[HTask(c)].targetID = S
               /\ handler'[c].pc = "Decode")
              => \E d \in Links(P, S) :
                    /\ Written(d)
                    /\ WrittenItem(d) = Encode(reply)
                    /\ reply.Type = "result"
                    /\ reply.From = P
                    /\ \E x \in Content : reply.Content = Processed(x)]_vars

\* The tick in progress on master n has sent one heartbeat to every registered
\* peer id, and nothing else.
TickComplete(n) ==
    /\ hb[n].pc = "range"
    /\ hb[n].todo = {}
    /\ DOMAIN hb[n].sent = DOMAIN Peers[n]
    /\ \A id \in DOMAIN Peers[n] : hb[n].sent[id] = 1

\* C2: on a master with N registered peers, every heartbeat tick sends exactly
\* N heartbeats, one to each registered peer id: a tick that has begun comes to
\* the end of its range having sent one heartbeat to every peer, none skipped
\* and none sent twice.
C2_TickReachesEveryPeer ==
    \A n \in Node : (hb[n].pc \in {"range", "send"}) ~> TickComplete(n)

\* The results on the wire or being sent in the scenario: only "Processed:
\* hello" from A, on a connection from A to B.
ScenarioResults ==
    /\ \A c \in DOMAIN conns : \A i \in DOMAIN stream[c] :
          Decode(stream[c][i]).msg.Type = "result"
          => /\ stream[c][i] = Encode(Message("result", "Processed: hello", 1))
             /\ c \in Links(1, 2)
    /\ \A c \in DOMAIN conns : handler[c].results <= 1
    /\ \A c \in DOMAIN conns : handler[c].results = 1 => c \in Links(1, 2)

\* B's handler has dispatched the result.
ScenarioDone == \E c \in Links(1, 2) : handler[c].results = 1

\* C3: in the two-node scenario, after both connects, B's "send A hello" leads
\* A's handler to send the result "Processed: hello" with from = A's id, and
\* B's handler dispatches that result, exactly once, however A's heartbeats
\* interleave.
C3_Scenario == []ScenarioResults /\ <>ScenarioDone

C3_Witness == ScenarioDone /\ cmds = 0 /\ hb[1].pc = "send"

\* Decoding on connection c fails now: what comes next is no message, or the
\* stream has ended.
DecodeFails(c) ==
    \/ stream[c] # <<>> /\ Decode(Head(stream[c])).err
    \/ stream[c] = <<>> /\ ~conns[c].open

\* C4: when decoding fails on a connection, its handler terminates for good and
\* dispatches nothing more from it; the step changes no other handler, nor
\* what waits on any connection, nor the registry; and every other handler
\* that has a message to decode can still decode it.
C4_DecodeFailureIsLocal ==
    /\ [][\A c \in DOMAIN conns :
            /\ (handler[c].pc = "Decode" /\ DecodeFails(c) /\ handler'[c] # handler[c])
               => /\ handler'[c] = [handler[c] EXCEPT !.pc = "dead"]
                  /\ \A d \in ConnId \ {c} : handler'[d] = handler[d]
                  /\ call' = call /\ stream' = stream
                  /\ Peers' = Peers /\ conn' = conn
            /\ handler[c].pc = "dead"
               => handler'[c] = handler[c] /\ call'[HTask(c)] = call[HTask(c)]
                  /\ Len(stream'[c]) >= Len(stream[c])]_vars
    /\ [](\A c, d \in DOMAIN conns :
            (handler[c].pc = "dead" /\ d # c /\ handler[d].pc = "Decode"
             /\ stream[d] # <<>> /\ ~DecodeFails(d))
            => ENABLED HandlerDecode(d))

C4_Witness ==
    \E c, d \in DOMAIN conns :
       /\ c # d /\ conns[c].acceptor = conns[d].acceptor
       /\ handler[c].pc = "dead"
       /\ handler[d].pc = "Decode" /\ stream[d] # <<>>
       /\ Decode(Head(stream[d])).msg.Type = "task"

\* The connections node n has registered under id, connectToPeer having
\* returned; the latest is the greatest.
Registered(n, id) ==
    {d \in DOMAIN conns :
        /\ conns[d].dialer = n /\ conns[d].id = id
        /\ ~(cli[n].pc \in {"Lock", "LockWait", "setPeers", "setConn"} /\ cli[n].conn = d)}

Latest(S) == CHOOSE d \in S : \A e \in S : e <= d

\* C5: a lookup of id by sendMessage finds the connection of the latest
\* connectToPeer(id, _) that has returned, and finds nothing when id was never
\* registered.
C5_LookupFindsLatest ==
    [][\A t \in Tasks :
          (call[t].pc = "lookup" /\ call'[t] # call[t])
          => LET R == Registered(NodeOf(t), call[t].targetID) IN
             IF R = {} THEN call'[t].pc = "NoConn" /\ ~call'[t].exists
             ELSE /\ call'[t].pc = "Encode" /\ call'[t].exists
                  /\ call'[t].conn = Latest(R)]_vars

C5_Witness ==
    \E t \in Tasks :
       /\ call[t].pc = "Encode" /\ call[t].exists
       /\ Cardinality(Registered(NodeOf(t), call[t].targetID)) = 2
       /\ call[t].conn = Latest(Registered(NodeOf(t), call[t].targetID))

\* The read sections of node n's registry that are open: a lookup of
\* sendMessage, the range of sendHeartbeats, the list command.
Readers(n) ==
    {t \in Tasks : call[t].pc = "lookup" /\ NodeOf(t) = n}
    \cup (IF hb[n].pc \in {"range", "send"} THEN {<<"range", n>>} ELSE {})
    \cup (IF cli[n].pc = "list" THEN {<<"list", n>>} ELSE {})

\* connectToPeer is between Lock and Unlock.
Writing(n) == cli[n].pc \in {"setPeers", "setConn"}

\* C6: while a reader holds the read lock, every id has its address and its
\* connection from the same registration: the address of the entry is the
\* one its connection was dialled at.
C6_EntriesAreWhole ==
    \A n \in Node :
       Readers(n) # {}
       => /\ DOMAIN Peers[n] = DOMAIN conn[n]
          /\ \A id \in DOMAIN Peers[n] :
                /\ conns[conn[n][id]].addr = Peers[n][id]
                /\ conns[conn[n][id]].id = id
                /\ conns[conn[n][id]].dialer = n

C6_Witness ==
    \E n \in Node :
       /\ Readers(n) # {}
       /\ \E d, e \in DOMAIN conns :
             /\ d < e /\ conns[d].dialer = n /\ conns[e].dialer = n
             /\ conns[d].id = conns[e].id /\ conns[d].addr # conns[e].addr
             /\ conn[n][conns[e].id] = e

\* C7: a sendMessage whose lookup finds no connection for targetID goes to
\* its error report and returns; it writes on no connection and leaves both
\* maps as they were.
C7_NoConnectionNoWrite ==
    [][\A t \in Tasks :
          /\ (call[t].pc = "lookup" /\ call'[t] # call[t]
              /\ call[t].targetID \notin DOMAIN conn[NodeOf(t)])
             => /\ call'[t] = [call[t] EXCEPT !.pc = "NoConn"]
                /\ stream' = stream /\ Peers' = Peers /\ conn' = conn
          /\ (call[t].pc = "NoConn" /\ call'[t] # call[t])
             => /\ call'[t] = IdleCall
                /\ stream' = stream /\ Peers' = Peers /\ conn' = conn]_vars

C7_Witness ==
    \E t \in Tasks : call[t].pc = "NoConn" /\ conn[NodeOf(t)] # <<>>

\* C8: when net.Dial fails, connectToPeer returns the error: the maps, the
\* connections and the lock are as before, the CLI reports and prompts again,
\* and the node is still running.
C8_DialFailureChangesNothing ==
    [][\A n \in Node :
          /\ (cli[n].pc # "err" /\ cli'[n].pc = "err")
             => /\ Peers' = Peers /\ conn' = conn /\ conns' = conns
                /\ mutex' = mutex /\ status' = status /\ stream' = stream
          /\ (cli[n].pc = "err" /\ cli'[n] # cli[n])
             => /\ cli'[n] = IdleCli /\ status'[n] = "running"
                /\ Peers' = Peers /\ conn' = conn]_vars

C8_Witness ==
    \E n \in Node : cli[n].pc = "err" /\ Peers[n] # <<>> /\ conn[n] # <<>>

\* C9: while connectToPeer is inside its write section no read section of the
\* same registry is open; the lock counts its readers, which may be several.
C9_WriterExcludes ==
    \A n \in Node :
       /\ Writing(n) => Readers(n) = {}
       /\ mutex[n].held <=> Writing(n)
       /\ mutex[n].readerCount = Cardinality(Readers(n))

C9_Witness ==
    \E n \in Node :
       /\ Writing(n)
       /\ \E t \in Tasks : call[t].pc = "RLock" /\ NodeOf(t) = n

\* The heartbeats on the wire and in the calls of sendMessage.
HeartbeatsOnWire ==
    {<<c, i>> \in ConnId \X (1 .. MaxQueue) :
        c \in DOMAIN conns /\ i \in DOMAIN stream[c]
        /\ Decode(stream[c][i]).msg.Type = "heartbeat"}

\* C10: a node that is not master has no heartbeat goroutine and sends no
\* heartbeat; every heartbeat comes from the sendHeartbeats of a master.
C10_OnlyMasterHeartbeats ==
    /\ \A n \in Node : ~IsMaster[n] => hb[n].pc = "off" /\ call[HbTask(n)] = IdleCall
    /\ \A t \in Tasks :
          call[t].msg.Type = "heartbeat" => t[1] = "hb" /\ IsMaster[t[2]]
    /\ \A w \in HeartbeatsOnWire :
          /\ conns[w[1]].dialer \in Node
          /\ IsMaster[conns[w[1]].dialer]
          /\ Decode(stream[w[1]][w[2]]).msg.From = conns[w[1]].dialer

C10_Witness ==
    \E n \in Node :
       /\ ~IsMaster[n] /\ status[n] = "running" /\ conn[n] # <<>>
       /\ \E w \in HeartbeatsOnWire : conns[w[1]].acceptor = n

\* The handler of connection c has been started.
Handled(c) == handler[c].pc # "none"

\* C11: every connection made to a listener is accepted and gets a handler of
\* its own, started without touching the handlers that run already; after an
\* accept error the loop logs and accepts again, so the connections that
\* arrive after the error are handled too.
C11_EveryConnectionHandled ==
    /\ \A c \in ConnId : (c \in DOMAIN conns) ~> Handled(c)
    /\ [][\A c \in ConnId :
            (~Handled(c) /\ Handled(c)')
            => /\ handler'[c] = IdleHandler("Decode")
               /\ \A d \in ConnId \ {c} : handler'[d] = handler[d]]_vars
    /\ [][\A n \in Node :
            (accept[n].pc = "log" /\ accept'[n] # accept[n])
            => accept'[n] = [accept[n] EXCEPT !.pc = "Accept"]]_vars

C11_Witness ==
    \E c, d \in DOMAIN conns :
       /\ c # d /\ conns[c].acceptor = conns[d].acceptor
       /\ conns[d].late
       /\ handler[c].pc \in {"Decode", "Sleep", "send"}
       /\ handler[d].pc \in {"Decode", "Sleep", "send"}

\* Node n's registry lock is deadlocked: connectToPeer waits in Lock for the
\* readers to leave, and the only reader inside is sendHeartbeats, whose
\* sendMessage waits in RLock for the writer.
RegistryDeadlock(n) ==
    /\ cli[n].pc = "LockWait" /\ mutex[n].pending /\ ~CanLock(n)
    /\ Readers(n) = {<<"range", n>>}
    /\ hb[n].pc = "send"
    /\ call[HbTask(n)].pc = "RLock" /\ ~CanRLock(n)

\* C12: the registry lock never deadlocks: no state has connectToPeer waiting
\* for the write lock behind the heartbeat goroutine's read lock while the
\* heartbeat goroutine's sendMessage waits for the read lock behind it.
C12_NoRegistryDeadlock == \A n \in Node : ~RegistryDeadlock(n)

\* The handler of connection c decodes a task in this step.
DecodesTask(c) ==
    /\ handler[c].pc = "Decode" /\ handler'[c].pc = "Sleep"
    /\ stream[c] # <<>> /\ Decode(Head(stream[c])).msg.Type = "task"

\* C13: the result of a task goes to the connection the receiving node's
\* registry holds, when sendMessage looks it up, under the task's from id,
\* whatever connection the task arrived on: the reply is addressed to from,
\* the lookup yields the registry's connection for it, and the write changes
\* that connection's stream and no other.
C13_ResultFollowsRegistry ==
    [][\A c \in DOMAIN conns :
          LET t == HTask(c)
              P == conns[c].acceptor
          IN  /\ DecodesTask(c) => handler'[c].msg = Decode(Head(stream[c])).msg
              /\ (handler[c].pc = "Sleep" /\ handler'[c].pc = "send")
                 => /\ call'[t].targetID = handler[c].msg.From
                    /\ call'[t].msg.Type = "result"
              /\ (call[t].pc = "lookup" /\ call'[t].pc = "Encode")
                 => /\ call[t].targetID \in DOMAIN conn[P]
                    /\ call'[t].conn = conn[P][call[t].targetID]
              /\ (call[t].pc = "Encode" /\ call'[t] = IdleCall)
                 => /\ stream' = [stream EXCEPT ![call[t].conn] =
                                     Append(@, Encode(call[t].msg))]
                    /\ conns[call[t].conn].dialer = P]_vars

C13_Witness ==
    \E c \in DOMAIN conns :
       /\ call[HTask(c)].pc = "Encode"
       /\ call[HTask(c)].targetID # conns[c].dialer
       /\ conns[call[HTask(c)].conn].acceptor # conns[c].dialer
       /\ Writable(call[HTask(c)].conn)

\* The sendMessage of handler c's reply is reporting an error: no connection
\* for the from id, or the write failed.
ReplyFails(c) == call[HTask(c)].pc \in {"NoConn", "EncodeErr"}

\* C14: only a decode failure ends a handler; a reply that cannot be sent
\* (no connection registered for the from id, or a failed write) is logged
\* and the handler is back at Decode, with what it has counted, ready for the
\* next message of its connection.
C14_OnlyDecodeFailureEnds ==
    [][\A c \in DOMAIN conns :
          /\ (handler[c].pc # "dead" /\ handler'[c].pc = "dead")
             => handler[c].pc = "Decode" /\ DecodeFails(c)
          /\ (ReplyFails(c) /\ call'[HTask(c)] # call[HTask(c)])
             => /\ handler[c].pc = "send"
                /\ handler'[c] = [handler[c] EXCEPT !.pc = "Decode"]
                /\ call'[HTask(c)] = IdleCall
                /\ stream' = stream]_vars

C14_Witness ==
    \E c \in DOMAIN conns : call[HTask(c)].pc = "EncodeErr" /\ handler[c].pc = "send"

\* Something was written at the end of connection c's stream in this step.
Appended(c) ==
    /\ Len(stream'[c]) > Len(stream[c])
    /\ SubSeq(stream'[c], 1, Len(stream[c])) = stream[c]

\* C15: a connection's messages are dispatched in the order they were written,
\* one at a time: the stream only loses its first object, to a handler that is
\* at Decode with no reply in progress, and only gains objects at its end; the
\* reply a handler sends is the result of the task it took last, and until
\* that sendMessage has returned the handler takes nothing more.
C15_StreamOrder ==
    [][\A c \in DOMAIN conns :
          LET t == HTask(c)
              head == Decode(Head(stream[c])).msg
          IN  /\ stream'[c] # stream[c]
                 => \/ Appended(c)
                    \/ /\ stream[c] # <<>> /\ stream'[c] = Tail(stream[c])
                       /\ handler[c].pc = "Decode" /\ call[t] = IdleCall
                       /\ handler'[c] = Dispatch(handler[c], head)
              /\ DecodesTask(c) => handler'[c].msg = head
              /\ (handler[c].pc = "Sleep" /\ handler'[c] # handler[c])
                 => /\ handler'[c].pc = "send"
                    /\ call'[t].msg = Message("result", Processed(handler[c].msg.Content),
                                              conns[c].acceptor)
                    /\ call'[t].targetID = handler[c].msg.From
              /\ handler[c].pc \in {"Sleep", "send"}
                 => Len(stream'[c]) >= Len(stream[c])
              /\ handler[c].pc = "send"
                 => /\ call[t].pc # "idle"
                    /\ call'[t] # IdleCall => call'[t].msg = call[t].msg]_vars

C15_Witness ==
    \E c \in DOMAIN conns :
       /\ handler[c].pc = "send" /\ call[HTask(c)].pc = "Encode"
       /\ stream[c] # <<>>
       /\ Decode(Head(stream[c])).msg.Type = "task"
       /\ Decode(Head(stream[c])).msg.From # call[HTask(c)].targetID

\* The handler of connection c is inside time.Sleep.
Sleeping(c) == c \in DOMAIN conns /\ handler[c].pc = "Sleep"

\* No writer holds the lock of node n or waits for it.
NoWriter(n) == cli[n].pc \notin {"LockWait", "setPeers", "setConn"}

\* C16: a handler inside the processing delay holds no registry lock (the
\* lock's readers and writer are the other goroutines' open sections), and
\* the other goroutines of its node can step: another handler with a message
\* decodes it, another sleeper wakes, the CLI takes connect, send and list,
\* connectToPeer gets the lock when no reader is inside, a tick begins; only
\* the sleeper's own connection is not read.
C16_DelayBlocksNobodyElse ==
    \A c \in ConnId :
       Sleeping(c)
       => LET P == conns[c].acceptor IN
          /\ call[HTask(c)] = IdleCall
          /\ mutex[P].readerCount = Cardinality(Readers(P))
          /\ mutex[P].held <=> Writing(P)
          /\ ~ENABLED HandlerDecode(c)
          /\ \A d \in DOMAIN conns \ {c} :
                /\ (handler[d].pc = "Decode" /\ stream[d] # <<>> /\ ~DecodeFails(d))
                   => ENABLED HandlerDecode(d)
                /\ handler[d].pc = "Sleep" => ENABLED HandlerWake(d)
          /\ AtPrompt(P)
             => /\ \A id \in Node, x \in Content : ENABLED CliSend(P, id, x)
                /\ \A id \in Node : ENABLED CliConnectFail(P, id, DeadAddr)
                /\ \A id \in Node, a \in Addr :
                      (DialOk(a) /\ Len(conns) < MaxConns) => ENABLED CliConnect(P, id, a)
                /\ NoWriter(P) => ENABLED CliList(P)
          /\ (cli[P].pc = "LockWait" /\ Readers(P) = {}) => ENABLED ConnectLocked(P)
          /\ (hb[P].pc = "wait" /\ NoWriter(P)) => ENABLED HbTick(P)

C16_Witness ==
    \E c, d \in DOMAIN conns :
       /\ Sleeping(c) /\ d # c /\ conns[d].acceptor = conns[c].acceptor
       /\ handler[d].pc = "Decode" /\ stream[d] # <<>>
       /\ AtPrompt(conns[c].acceptor)

\* The handler of connection c takes a message from its stream in this step.
Takes(c) == Len(stream'[c]) < Len(stream[c])

\* C17: dispatching a heartbeat, a result or a message of another type sends
\* nothing, changes neither map, and leaves the handler at Decode; a handler
\* begins a sendMessage only out of the sleep that follows a task, and what it
\* sends is a result, so nothing answers a result.
C17_OnlyTasksAreAnswered ==
    [][\A c \in DOMAIN conns :
          LET t == HTask(c) IN
          /\ (Takes(c) /\ Decode(Head(stream[c])).msg.Type # "task")
             => /\ handler'[c].pc = "Decode"
                /\ handler'[c].msg = ZeroMessage
                /\ call' = call
                /\ Peers' = Peers /\ conn' = conn
                /\ \A d \in ConnId \ {c} : stream'[d] = stream[d]
          /\ (call[t] = IdleCall /\ call'[t] # IdleCall)
             => /\ handler[c].pc = "Sleep"
                /\ handler[c].msg.Type = "task"
                /\ call'[t].msg.Type = "result"]_vars

C17_Witness ==
    \E c \in DOMAIN conns :
       /\ handler[c].results = 1 /\ handler[c].pc = "Decode"
       /\ call[HTask(c)] = IdleCall /\ stream[c] = <<>>

\* C18: connectToPeer starts no handler: handlers exist only on connections a
\* node accepted, a step of connectToPeer changes no handler, what the remote
\* writes on a connection a node dialled is never taken from it, and a node
\* takes messages only from a connection it accepted, in that connection's
\* handler.
C18_DialledSideIsNeverRead ==
    /\ [](\A c \in DOMAIN conns : Handled(c) => conns[c].acceptor \in Node)
    /\ [][/\ \A c \in ConnId :
               /\ back'[c] # back[c]
                  => /\ Len(back'[c]) > Len(back[c])
                     /\ SubSeq(back'[c], 1, Len(back[c])) = back[c]
               /\ (c \in DOMAIN conns /\ Takes(c) /\ conns[c].acceptor \in Node)
                  => handler[c].pc = "Decode"
          /\ (cli' # cli \/ conns' # conns \/ conn' # conn \/ Peers' # Peers)
             => handler' = handler]_vars

C18_Witness ==
    \E c \in DOMAIN conns :
       LET n == conns[c].dialer IN
       /\ n \in Node /\ back[c] # <<>>
       /\ conns[c].id \in DOMAIN conn[n] /\ conn[n][conns[c].id] = c
       /\ cli[n].pc = "prompt" /\ cmds = 0

\* The write of goroutine t's sendMessage meets a broken connection, or its
\* failure is being logged.
WriteFails(t) ==
    \/ call[t].pc = "Encode" /\ ~Writable(call[t].conn)
    \/ call[t].pc = "EncodeErr"

\* C19: the registry only grows or overwrites: an id that has an entry keeps
\* one.  A send that fails on a broken connection is made once: the failure
\* is logged and sendMessage returns, nothing is written or kept for later,
\* and the entries of the peer stay; a tick that begins ranges over every id
\* of the registry, the ids of broken connections included.
C19_RegistryKeepsEntries ==
    [][/\ \A n \in Node :
            /\ DOMAIN Peers[n] \subseteq DOMAIN Peers'[n]
            /\ DOMAIN conn[n] \subseteq DOMAIN conn'[n]
            /\ (hb[n].pc = "wait" /\ hb'[n].pc # "wait")
               => hb'[n].todo = DOMAIN Peers[n]
       /\ \A t \in Tasks :
            (WriteFails(t) /\ call'[t] # call[t])
            => /\ call'[t] = IF call[t].pc = "Encode"
                             THEN [call[t] EXCEPT !.pc = "EncodeErr"] ELSE IdleCall
               /\ stream' = stream /\ Peers' = Peers /\ conn' = conn]_vars

C19_Witness ==
    \E n \in Node :
       LET t == HbTask(n) IN
       /\ call[t].pc = "EncodeErr"
       /\ call[t].targetID \in DOMAIN Peers[n]
       /\ conn[n][call[t].targetID] = call[t].conn

\* Goroutine t is inside encoder.Encode on connection c: its send is in flight.
Sending(t, c) == call[t].pc = "Encode" /\ call[t].conn = c

\* C20: at most one send is in flight on a connection at any time: no two
\* goroutines are inside Encode on the same connection.
C20_OneSendPerConnection ==
    \A c \in DOMAIN conns : \A t, u \in Tasks :
       (Sending(t, c) /\ Sending(u, c)) => t = u

====
